---------------------------- MODULE Spec2Model ----------------------------
(***************************************************************************)
(* felt: the dependency graph engine (internal/felt graph.go) and the CLI  *)
(* commands that write dependency lists (cmd add / link / unlink / edit /  *)
(* rm / on / off), as a state machine.                                     *)
(*                                                                         *)
(*   Spec       the CLI commands acting on the persisted store             *)
(*   SpecGraph  the engine's queries on arbitrary fiber lists (cyclic,     *)
(*              dangling and duplicate references included)                *)
(*   SpecReady  BuildGraph + Ready on arbitrary fiber lists and statuses   *)
(*   SpecBuild  BuildGraph on arbitrary labelled fiber lists               *)
(*   SpecDepth  the depth-limited traversals on arbitrary fiber lists      *)
(*   SpecPath   FindPath on arbitrary fiber lists and four-fiber chains    *)
(*   SpecRender ToText and GetDownstream on arbitrary fiber lists          *)
(*   SpecSteps  the engine's loops taken one iteration per step            *)
(*   SpecTrack  the status-tracking commands and ready on the store        *)
(*   SpecDrain  ready and off in turn on arbitrary directories, with       *)
(*              fairness                                                   *)
(***************************************************************************)
EXTENDS Integers, Sequences, FiniteSets, TLC

VARIABLES
    store,   \* .felt/ directory: id -> content of the file <id>.md
    felts,   \* the []*Felt slice handed to BuildGraph
    g,       \* the *Graph under query, or NoGraph before BuildGraph
    last,    \* the last operation, its arguments and what it returned
    call     \* the engine call in progress: its local variables and position

vars == <<store, felts, g, last, call>>

-----------------------------------------------------------------------------
(* Bounds *)

\* longest dependency list drawn as an input (fiber lists, -a flags)
MaxDeps == 2
\* most dependency references in one drawn fiber list
MaxEdges == 3
\* most loop iterations one engine call is followed for
MaxSteps == 30
\* largest depth limit passed to a depth-limited traversal
MaxDepthLimit == 2

\* fiber ids (file names without .md) in file-name order; an id with no fiber
\* is a dangling target
IdOrder == <<"a", "b", "c">>
Ids == {IdOrder[i] : i \in 1..Len(IdOrder)}

StatusOpen == "open"
StatusActive == "active"
StatusClosed == "closed"
\* "" is the absent status (untracked fiber)
Statuses == {"", StatusOpen, StatusActive, StatusClosed}

Labels == {"", "why"}

\* g before the first BuildGraph
NoGraph == [Nodes |-> <<>>, Upstream |-> <<>>, Downstream |-> <<>>, built |-> FALSE]
\* a []string result: Go's nil slice (FindPath's "no path"), or a path
NoPath == [isNil |-> TRUE, path |-> <<>>]
PathOf(p) == [isNil |-> FALSE, path |-> p]

\* no engine call in progress. The locals of a call: queue, visited, result of
\* bfs; parent and found of FindPath; ord, k of a loop over a map; mark
\* (visited), stack (the dfs frames) and result (cycles) of FindCycles; steps
\* counts the loop iterations executed
Idle ==
    [op |-> "none", pc |-> "idle", args |-> <<>>, queue |-> <<>>, visited |-> {},
     result |-> <<>>, parent |-> [x \in {} |-> ""], found |-> NoPath, ord |-> <<>>,
     k |-> 0, mark |-> [x \in {} |-> 0], stack |-> <<>>, steps |-> 0]

-----------------------------------------------------------------------------
(* Generic helpers *)

Range(s) == {s[i] : i \in 1..Len(s)}

\* every order a Go map with key set S may be iterated in
Perms(S) ==
    {p \in [1..Cardinality(S) -> S] : \A i, j \in 1..Cardinality(S) : i # j => p[i] # p[j]}

\* the ids of S in file-name order, as os.ReadDir lists them
SortedIds(S) == LET keep(x) == x \in S IN SelectSeq(IdOrder, keep)

\* Go map read: the zero value (nil slice) for a missing key
Lookup(m, k) == IF k \in DOMAIN m THEN m[k] ELSE <<>>

\* Go map write m[k] = v
Put(m, k, v) == [x \in (DOMAIN m) \cup {k} |-> IF x = k THEN v ELSE m[x]]

\* number of indices of sequence s whose entry satisfies being equal to e
Count(s, e) == Cardinality({i \in 1..Len(s) : s[i] = e})

-----------------------------------------------------------------------------
(* internal/felt/felt.go *)

Dependency(id, label) == [ID |-> id, Label |-> label]

HasID(deps, id) == \E i \in 1..Len(deps) : deps[i].ID = id

IsOpen(f) == f.Status = StatusOpen
IsActive(f) == f.Status = StatusActive
IsClosed(f) == f.Status = StatusClosed
HasStatus(f) == f.Status # ""

Felt(id, status, deps, created) ==
    [ID |-> id, Status |-> status, DependsOn |-> deps, CreatedAt |-> created]

-----------------------------------------------------------------------------
(* graph.go: BuildGraph *)

\* the inner loop forgetting to carry the label over
RECURSIVE AppendDownstreamNoLabel(_, _, _, _)
AppendDownstreamNoLabel(down, id, deps, i) ==
    IF i > Len(deps) THEN down
    ELSE AppendDownstreamNoLabel(
            Put(down, deps[i].ID, Append(Lookup(down, deps[i].ID), Dependency(id, ""))),
            id, deps, i + 1)

\* the inner loop leaving after its first append
AppendDownstreamFirstOnly(down, id, deps, i) ==
    IF i > Len(deps) THEN down
    ELSE Put(down, deps[i].ID,
             Append(Lookup(down, deps[i].ID), Dependency(id, deps[i].Label)))

\* inner loop of the second pass: one Downstream append per entry of deps
RECURSIVE AppendDownstream(_, _, _, _)
AppendDownstream(down, id, deps, i) ==
    IF i > Len(deps) THEN down
    ELSE AppendDownstream(
            Put(down, deps[i].ID,
                Append(Lookup(down, deps[i].ID), Dependency(id, deps[i].Label))),
            id, deps, i + 1)

\* second pass: range over g.Upstream in the map order ord
RECURSIVE SecondPass(_, _, _, _)
SecondPass(up, ord, k, down) ==
    IF k > Len(ord) THEN down
    ELSE SecondPass(up, ord, k + 1, AppendDownstream(down, ord[k], up[ord[k]], 1))

\* first pass: index nodes and upstream lists; a later element overwrites an earlier
RECURSIVE FirstPass(_, _, _)
FirstPass(fs, i, acc) ==
    IF i > Len(fs) THEN acc
    ELSE FirstPass(fs, i + 1,
            [Nodes |-> Put(acc.Nodes, fs[i].ID, fs[i]),
             Upstream |-> Put(acc.Upstream, fs[i].ID, fs[i].DependsOn)])

EmptyMap == [x \in {} |-> <<>>]

BuildGraph(fs, ord) ==
    LET p1 == FirstPass(fs, 1, [Nodes |-> EmptyMap, Upstream |-> EmptyMap])
    IN  [Nodes |-> p1.Nodes,
         Upstream |-> p1.Upstream,
         Downstream |-> SecondPass(p1.Upstream, ord, 1, EmptyMap),
         built |-> TRUE]

-----------------------------------------------------------------------------
(* graph.go: bfs, GetUpstream, GetDownstream *)

\* the neighbour loop without the visited test
RECURSIVE BfsScanNoVisited(_, _, _, _)
BfsScanNoVisited(deps, i, visited, queue) ==
    IF i > Len(deps) THEN [visited |-> visited, queue |-> queue]
    ELSE BfsScanNoVisited(deps, i + 1, visited \cup {deps[i].ID}, Append(queue, deps[i].ID))

\* the neighbour loop leaving after the first id it enqueues
RECURSIVE BfsScanBreak(_, _, _, _)
BfsScanBreak(deps, i, visited, queue) ==
    IF i > Len(deps) THEN [visited |-> visited, queue |-> queue]
    ELSE IF deps[i].ID \in visited
         THEN BfsScanBreak(deps, i + 1, visited, queue)
         ELSE [visited |-> visited \cup {deps[i].ID}, queue |-> Append(queue, deps[i].ID)]

\* for _, dep := range adj[current]: enqueue every id not yet visited
RECURSIVE BfsScan(_, _, _, _)
BfsScan(deps, i, visited, queue) ==
    IF i > Len(deps) THEN [visited |-> visited, queue |-> queue]
    ELSE IF deps[i].ID \in visited
         THEN BfsScan(deps, i + 1, visited, queue)
         ELSE BfsScan(deps, i + 1, visited \cup {deps[i].ID}, Append(queue, deps[i].ID))

\* the queue loop putting each dequeued id in front of the result
RECURSIVE BfsLoopPrepend(_, _, _, _, _)
BfsLoopPrepend(adj, start, queue, visited, result) ==
    IF queue = <<>> THEN result
    ELSE LET current == Head(queue)
             res2 == IF current # start THEN <<current>> \o result ELSE result
             sc == BfsScan(Lookup(adj, current), 1, visited, Tail(queue))
         IN  BfsLoopPrepend(adj, start, sc.queue, sc.visited, res2)

RECURSIVE BfsLoop(_, _, _, _, _)
BfsLoop(adj, start, queue, visited, result) ==
    IF queue = <<>> THEN result
    ELSE LET current == Head(queue)
             res2 == IF current # start THEN Append(result, current) ELSE result
             sc == BfsScan(Lookup(adj, current), 1, visited, Tail(queue))
         IN  BfsLoop(adj, start, sc.queue, sc.visited, res2)

\* bfs without the "don't include start in result" test
bfsKeepStart(start, adj) == BfsLoop(adj, "", <<start>>, {start}, <<>>)

bfs(start, adj) == BfsLoop(adj, start, <<start>>, {start}, <<>>)

\* GetUpstream dropping the ids that have no fiber
GetUpstreamKnownOnly(gr, id) ==
    SelectSeq(bfs(id, gr.Upstream), LAMBDA x : x \in DOMAIN gr.Nodes)

GetUpstream(gr, id) == bfs(id, gr.Upstream)

\* GetDownstream answering only for ids that have a fiber
GetDownstreamKnownOnly(gr, id) ==
    IF id \in DOMAIN gr.Nodes THEN bfs(id, gr.Downstream) ELSE <<>>

GetDownstream(gr, id) == bfs(id, gr.Downstream)

\* The depth-limited traversal behind `felt upstream` / `felt downstream`
\* (GetUpstreamN, GetDownstreamN): bfs whose queue carries the depth of each id
\* and which does not expand the neighbours of an id once maxDepth is reached;
\* maxDepth 0 is no limit. queue holds [id, depth] entries.
RECURSIVE BfsNLoop(_, _, _, _, _, _)
BfsNLoop(adj, start, maxDepth, queue, visited, result) ==
    IF queue = <<>> THEN result
    ELSE LET current == Head(queue)
             res2 == IF current.id # start THEN Append(result, current.id) ELSE result
         IN  IF maxDepth > 0 /\ current.depth >= maxDepth
             THEN BfsNLoop(adj, start, maxDepth, Tail(queue), visited, res2)
             ELSE LET sc == BfsScan(Lookup(adj, current.id), 1, visited, <<>>)
                      more == [i \in 1..Len(sc.queue) |->
                                  [id |-> sc.queue[i], depth |-> current.depth + 1]]
                  IN  BfsNLoop(adj, start, maxDepth, Tail(queue) \o more, sc.visited, res2)

bfsN(start, adj, maxDepth) ==
    BfsNLoop(adj, start, maxDepth, <<[id |-> start, depth |-> 0]>>, {start}, <<>>)

GetUpstreamN(gr, id, depth) == bfsN(id, gr.Upstream, depth)

GetDownstreamN(gr, id, depth) == bfsN(id, gr.Downstream, depth)

-----------------------------------------------------------------------------
(* graph.go: Ready *)

\* the dependency loop without the missing-dependency branch
RECURSIVE AllDepsClosedSkipMissing(_, _, _)
AllDepsClosedSkipMissing(gr, deps, i) ==
    IF i > Len(deps) THEN TRUE
    ELSE IF deps[i].ID \notin DOMAIN gr.Nodes
         THEN AllDepsClosedSkipMissing(gr, deps, i + 1)
    ELSE IF ~IsClosed(gr.Nodes[deps[i].ID]) THEN FALSE
    ELSE AllDepsClosedSkipMissing(gr, deps, i + 1)

\* the dependency loop looking at the first dependency only
RECURSIVE AllDepsClosedFirstOnly(_, _, _)
AllDepsClosedFirstOnly(gr, deps, i) ==
    IF i > Len(deps) \/ i > 1 THEN TRUE
    ELSE IF deps[i].ID \notin DOMAIN gr.Nodes THEN FALSE
    ELSE IF ~IsClosed(gr.Nodes[deps[i].ID]) THEN FALSE
    ELSE AllDepsClosedFirstOnly(gr, deps, i + 1)

\* the dependency loop of Ready, with its two breaks
RECURSIVE AllDepsClosed(_, _, _)
AllDepsClosed(gr, deps, i) ==
    IF i > Len(deps) THEN TRUE
    ELSE IF deps[i].ID \notin DOMAIN gr.Nodes THEN FALSE
    ELSE IF ~IsClosed(gr.Nodes[deps[i].ID]) THEN FALSE
    ELSE AllDepsClosed(gr, deps, i + 1)

\* the scan listing only the open fibers that have no dependency at all
RECURSIVE ReadyScanNoDeps(_, _, _)
ReadyScanNoDeps(gr, ord, k) ==
    IF k > Len(ord) THEN <<>>
    ELSE LET f == gr.Nodes[ord[k]]
             rest == ReadyScanNoDeps(gr, ord, k + 1)
         IN  IF IsOpen(f) /\ f.DependsOn = <<>> THEN <<f>> \o rest ELSE rest

\* for _, f := range g.Nodes, in the map order ord: the slice before sorting
RECURSIVE ReadyScan(_, _, _)
ReadyScan(gr, ord, k) ==
    IF k > Len(ord) THEN <<>>
    ELSE LET f == gr.Nodes[ord[k]]
             rest == ReadyScan(gr, ord, k + 1)
         IN  IF ~IsOpen(f) THEN rest
             ELSE IF AllDepsClosed(gr, f.DependsOn, 1) THEN <<f>> \o rest
             ELSE rest

\* sort.Slice by CreatedAt is not stable: every order of the same elements in
\* which no element is created before its predecessor is a possible outcome
SortByCreated(s) ==
    {[i \in 1..Len(s) |-> s[p[i]]] : p \in
        {q \in Perms(1..Len(s)) :
            \A i \in 1..(Len(s) - 1) : ~(s[q[i + 1]].CreatedAt < s[q[i]].CreatedAt)}}

\* the set of slices Ready may return when the map is iterated in order ord
Ready(gr, ord) == SortByCreated(ReadyScan(gr, ord, 1))

-----------------------------------------------------------------------------
(* graph.go: DetectCycle *)

RECURSIVE Contains(_, _, _)
Contains(s, i, x) ==
    IF i > Len(s) THEN FALSE
    ELSE IF s[i] = x THEN TRUE
    ELSE Contains(s, i + 1, x)

\* DetectCycle without the final from == to test
DetectCycleNoSelf(gr, from, to) == Contains(GetUpstream(gr, to), 1, from)

\* DetectCycle looking for to among the dependencies of from
DetectCycleForward(gr, from, to) ==
    IF Contains(GetUpstream(gr, from), 1, to) THEN TRUE
    ELSE from = to

\* DetectCycle walking the dependents of to instead of its dependencies
DetectCycleDownstream(gr, from, to) ==
    IF Contains(GetDownstream(gr, to), 1, from) THEN TRUE
    ELSE from = to

\* DetectCycle looking only at the direct dependencies of to
DetectCycleDirectOnly(gr, from, to) ==
    IF HasID(Lookup(gr.Upstream, to), from) THEN TRUE
    ELSE from = to

DetectCycle(gr, from, to) ==
    IF Contains(GetUpstream(gr, to), 1, from) THEN TRUE
    ELSE from = to

-----------------------------------------------------------------------------
(* graph.go: FindCycles *)

\* index of the first occurrence of id in path, 0 when there is none
RECURSIVE IndexOf(_, _, _)
IndexOf(path, i, id) ==
    IF i > Len(path) THEN 0
    ELSE IF path[i] = id THEN i
    ELSE IndexOf(path, i + 1, id)

\* visited: id -> 0 unvisited, 1 in-stack, 2 done; st = [visited, cycles]
Mark(visited, id) == IF id \in DOMAIN visited THEN visited[id] ELSE 0

RECURSIVE Dfs(_, _, _, _)
RECURSIVE DfsDeps(_, _, _, _, _)
Dfs(gr, id, path, st) ==
    IF Mark(st.visited, id) = 1
    THEN LET cycleStart == IndexOf(path, 1, id)
         IN  IF cycleStart >= 1
             THEN [st EXCEPT !.cycles =
                      Append(@, Append(SubSeq(path, cycleStart, Len(path)), id))]
             ELSE st
    ELSE IF Mark(st.visited, id) = 2 THEN st
    ELSE LET st1 == [st EXCEPT !.visited = Put(@, id, 1)]
             st2 == DfsDeps(gr, Lookup(gr.Upstream, id), 1, Append(path, id), st1)
         IN  [st2 EXCEPT !.visited = Put(@, id, 2)]

DfsDeps(gr, deps, i, path, st) ==
    IF i > Len(deps) THEN st
    ELSE IF deps[i].ID \in DOMAIN gr.Nodes
         THEN DfsDeps(gr, deps, i + 1, path, Dfs(gr, deps[i].ID, path, st))
         ELSE DfsDeps(gr, deps, i + 1, path, st)

\* the outer scan returning as soon as one cycle has been recorded
RECURSIVE FindCyclesLoopStopAtFirst(_, _, _, _)
FindCyclesLoopStopAtFirst(gr, ord, k, st) ==
    IF k > Len(ord) \/ st.cycles # <<>> THEN st
    ELSE IF Mark(st.visited, ord[k]) = 0
         THEN FindCyclesLoopStopAtFirst(gr, ord, k + 1, Dfs(gr, ord[k], <<>>, st))
         ELSE FindCyclesLoopStopAtFirst(gr, ord, k + 1, st)

\* the outer scan stopping after the first root
RECURSIVE FindCyclesLoopFirstRoot(_, _, _, _)
FindCyclesLoopFirstRoot(gr, ord, k, st) ==
    IF k > Len(ord) \/ k > 1 THEN st
    ELSE FindCyclesLoopFirstRoot(gr, ord, k + 1, Dfs(gr, ord[k], <<>>, st))

RECURSIVE FindCyclesLoop(_, _, _, _)
FindCyclesLoop(gr, ord, k, st) ==
    IF k > Len(ord) THEN st
    ELSE IF Mark(st.visited, ord[k]) = 0
         THEN FindCyclesLoop(gr, ord, k + 1, Dfs(gr, ord[k], <<>>, st))
         ELSE FindCyclesLoop(gr, ord, k + 1, st)

\* each description is the id path that "cycle: " + strings.Join(.., " -> ") prints
FindCycles(gr, ord) ==
    FindCyclesLoop(gr, ord, 1, [visited |-> EmptyMap, cycles |-> <<>>]).cycles

-----------------------------------------------------------------------------
(* graph.go: ValidateDependencies *)

\* an error "<src> depends on non-existent <missing>"
DepError(src, missing) == [src |-> src, missing |-> missing]

\* the inner loop breaking at the first missing id of a fiber
RECURSIVE ValidateDepsFirstOnly(_, _, _, _)
ValidateDepsFirstOnly(gr, id, deps, i) ==
    IF i > Len(deps) THEN <<>>
    ELSE IF deps[i].ID \notin DOMAIN gr.Nodes
         THEN <<DepError(id, deps[i].ID)>>
         ELSE ValidateDepsFirstOnly(gr, id, deps, i + 1)

RECURSIVE ValidateDeps(_, _, _, _)
ValidateDeps(gr, id, deps, i) ==
    IF i > Len(deps) THEN <<>>
    ELSE IF deps[i].ID \notin DOMAIN gr.Nodes
         THEN <<DepError(id, deps[i].ID)>> \o ValidateDeps(gr, id, deps, i + 1)
         ELSE ValidateDeps(gr, id, deps, i + 1)

RECURSIVE ValidateLoop(_, _, _)
ValidateLoop(gr, ord, k) ==
    IF k > Len(ord) THEN <<>>
    ELSE ValidateDeps(gr, ord[k], gr.Upstream[ord[k]], 1) \o ValidateLoop(gr, ord, k + 1)

ValidateDependencies(gr, ord) == ValidateLoop(gr, ord, 1)

-----------------------------------------------------------------------------
(* graph.go: FindPath *)

\* parent[x], "" when x has no parent entry
ParentOf(parent, x) == IF x \in DOMAIN parent THEN parent[x] ELSE ""

\* the reconstruction appending each parent instead of prepending it
RECURSIVE ReconstructAppend(_, _, _)
ReconstructAppend(parent, p, path) ==
    IF p = "" THEN path
    ELSE ReconstructAppend(parent, ParentOf(parent, p), Append(path, p))

\* for p := parent[to]; p != ""; p = parent[p] { path = append([]string{p}, path...) }
RECURSIVE Reconstruct(_, _, _)
Reconstruct(parent, p, path) ==
    IF p = "" THEN path
    ELSE Reconstruct(parent, ParentOf(parent, p), <<p>> \o path)

\* st = [visited, parent, queue, found]; found is the returned path once to is met
RECURSIVE PathScan(_, _, _, _, _)
PathScan(deps, i, current, to, st) ==
    IF i > Len(deps) THEN st
    ELSE IF deps[i].ID \in st.visited THEN PathScan(deps, i + 1, current, to, st)
    ELSE LET parent2 == Put(st.parent, deps[i].ID, current)
             st2 == [st EXCEPT !.visited = @ \cup {deps[i].ID}, !.parent = parent2]
         IN  IF deps[i].ID = to
             THEN [st2 EXCEPT !.found =
                      PathOf(Reconstruct(parent2, ParentOf(parent2, to), <<to>>))]
             ELSE PathScan(deps, i + 1, current, to, [st2 EXCEPT !.queue = Append(@, deps[i].ID)])

\* push every id not yet expanded, recording the pusher as its parent
RECURSIVE PathPushDeep(_, _, _, _)
PathPushDeep(deps, i, current, st) ==
    IF i > Len(deps) THEN st
    ELSE IF deps[i].ID \in st.visited THEN PathPushDeep(deps, i + 1, current, st)
    ELSE PathPushDeep(deps, i + 1, current,
            [st EXCEPT !.parent = Put(@, deps[i].ID, current),
                       !.queue = Append(@, deps[i].ID)])

\* the search run depth-first: the queue used as a stack, an id marked and
\* compared with to when it is taken off
RECURSIVE PathLoopDeep(_, _, _)
PathLoopDeep(gr, to, st) ==
    IF st.queue = <<>> THEN NoPath
    ELSE LET current == st.queue[Len(st.queue)]
             rest == [st EXCEPT !.queue = SubSeq(@, 1, Len(@) - 1)]
         IN  IF current = to
             THEN PathOf(Reconstruct(st.parent, ParentOf(st.parent, to), <<to>>))
             ELSE IF current \in st.visited /\ ParentOf(st.parent, current) # ""
             THEN PathLoopDeep(gr, to, rest)
             ELSE PathLoopDeep(gr, to,
                     PathPushDeep(Lookup(gr.Upstream, current), 1, current,
                                  [rest EXCEPT !.visited = @ \cup {current}]))

RECURSIVE PathLoop(_, _, _)
PathLoop(gr, to, st) ==
    IF st.queue = <<>> THEN NoPath
    ELSE LET current == Head(st.queue)
             st2 == PathScan(Lookup(gr.Upstream, current), 1, current, to,
                             [st EXCEPT !.queue = Tail(@)])
         IN  IF st2.found # NoPath THEN st2.found ELSE PathLoop(gr, to, st2)

\* FindPath without the from == to shortcut
FindPathNoSelf(gr, from, to) ==
    PathLoop(gr, to,
        [visited |-> {from}, parent |-> [x \in {} |-> ""], queue |-> <<from>>,
         found |-> NoPath])

FindPath(gr, from, to) ==
    IF from = to THEN PathOf(<<from>>)
    ELSE PathLoop(gr, to,
            [visited |-> {from}, parent |-> [x \in {} |-> ""], queue |-> <<from>>,
             found |-> NoPath])

-----------------------------------------------------------------------------
(* graph.go: ToText, printTextTree *)

\* sort.Slice(children, ... children[i].ID < children[j].ID): every order of
\* the same entries in which no id is smaller than its predecessor's
SortByID(s) ==
    {[i \in 1..Len(s) |-> s[p[i]]] : p \in
        {q \in Perms(1..Len(s)) :
            \A i \in 1..(Len(s) - 1) :
               ~(IndexOf(IdOrder, 1, s[q[i + 1]].ID) < IndexOf(IdOrder, 1, s[q[i]].ID))}}

\* st = [down, printed, out]: g.Downstream, the printed map and the lines
\* written so far (id and edge label of each line). children is a slice header
\* on g.Downstream[id], so the sort reorders g.Downstream[id] itself.
RECURSIVE printTextTree(_, _, _, _)
RECURSIVE PrintChildren(_, _, _, _)
printTextTree(gr, st, id, edgeLabel) ==
    IF id \in st.printed THEN {st}
    ELSE LET st1 == [st EXCEPT !.printed = @ \cup {id}]
         IN  IF id \notin DOMAIN gr.Nodes THEN {st1}
             ELSE UNION {
                     PrintChildren(gr,
                        {[st1 EXCEPT !.out = Append(@, <<id, edgeLabel>>),
                                     !.down = IF id \in DOMAIN @
                                              THEN [@ EXCEPT ![id] = children]
                                              ELSE @]},
                        children, 1)
                     : children \in SortByID(Lookup(st1.down, id))}

\* for i, child := range children { g.printTextTree(..., child.ID, ...) }
PrintChildren(gr, S, children, i) ==
    IF i > Len(children) THEN S
    ELSE PrintChildren(gr,
            UNION {printTextTree(gr, st, children[i].ID, children[i].Label) : st \in S},
            children, i + 1)

\* for _, root := range roots / for _, id := range ids
RECURSIVE PrintEach(_, _, _, _)
PrintEach(gr, S, ids, i) ==
    IF i > Len(ids) THEN S
    ELSE PrintEach(gr, UNION {printTextTree(gr, st, ids[i], "") : st \in S}, ids, i + 1)

\* the outcomes of ToText: the lines written and g.Downstream as it is left
ToText(gr) ==
    LET ids == SortedIds(DOMAIN gr.Nodes)
        roots == SelectSeq(ids, LAMBDA id : Len(Lookup(gr.Upstream, id)) = 0)
        st0 == [down |-> gr.Downstream, printed |-> {}, out |-> <<>>]
    IN  PrintEach(gr, PrintEach(gr, {st0}, roots, 1), ids, 1)

-----------------------------------------------------------------------------
(* felt.go Marshal / Parse and storage.go *)

\* Dependency.MarshalYAML: a bare string without label, an {id, label} object with one
MarshalDep(d) ==
    IF d.Label = "" THEN [scalar |-> d.ID] ELSE [id |-> d.ID, label |-> d.Label]

\* Dependency.UnmarshalYAML
UnmarshalDep(v) ==
    IF "scalar" \in DOMAIN v THEN Dependency(v.scalar, "") ELSE Dependency(v.id, v.label)

\* Felt.Marshal: the frontmatter fields the model keeps
Marshal(f) ==
    [status |-> f.Status,
     dependsOn |-> [i \in 1..Len(f.DependsOn) |-> MarshalDep(f.DependsOn[i])],
     createdAt |-> f.CreatedAt]

\* Parse(id, content)
Parse(id, c) ==
    Felt(id, c.status, [i \in 1..Len(c.dependsOn) |-> UnmarshalDep(c.dependsOn[i])],
         c.createdAt)

\* Storage.Write: overwrite the file of f.ID
Write(st, f) == Put(st, f.ID, Marshal(f))

\* Storage.Read
Read(st, id) == Parse(id, st[id])

\* Storage.Delete
Delete(st, id) == [x \in (DOMAIN st) \ {id} |-> st[x]]

\* Storage.List: every file of the directory, in file-name order
List(st) ==
    LET ids == SortedIds(DOMAIN st) IN [i \in 1..Len(ids) |-> Read(st, ids[i])]

\* Felt.MatchesID; the model's queries are whole ids
MatchesID(f, query) == f.ID = query

\* Storage.Find: the one fiber matching query, or an error
Find(st, query) ==
    LET fs == List(st)
        matches == SelectSeq(fs, LAMBDA f : MatchesID(f, query))
    IN  IF Len(matches) = 1 THEN [ok |-> TRUE, felt |-> matches[1]]
        ELSE [ok |-> FALSE, felt |-> Felt("", "", <<>>, 0)]

-----------------------------------------------------------------------------
(* cmd: add, link, unlink, edit, rm, on, off.                                *)
(* Each command is a function from the store and its arguments to what it    *)
(* returns and the store it leaves: [out, store].                            *)

Result(out, st) == [out |-> out, store |-> st]

\* a flag that was not given on the command line
NoFlag == [set |-> FALSE, val |-> <<>>]
Flag(v) == [set |-> TRUE, val |-> v]

\* resolve every -a query with storage.Find, in order; ok is FALSE at the first miss
RECURSIVE ResolveAll(_, _, _)
ResolveAll(st, qs, i) ==
    IF i > Len(qs) THEN [ok |-> TRUE, ids |-> <<>>]
    ELSE LET r == Find(st, qs[i])
         IN  IF ~r.ok THEN [ok |-> FALSE, ids |-> <<>>]
             ELSE LET rest == ResolveAll(st, qs, i + 1)
                  IN  [ok |-> rest.ok, ids |-> <<r.felt.ID>> \o rest.ids]

\* for _, dep := range f.DependsOn { if g.DetectCycle(f.ID, dep.ID) { return err } }
RECURSIVE AnyCycle(_, _, _, _)
AnyCycle(gr, id, deps, i) ==
    IF i > Len(deps) THEN FALSE
    ELSE IF DetectCycle(gr, id, deps[i].ID) THEN TRUE
    ELSE AnyCycle(gr, id, deps, i + 1)

\* g := BuildGraph(felts); g.Nodes[f.ID] = f; g.Upstream[f.ID] = f.DependsOn
PatchedGraph(st, f) ==
    LET fs == List(st)
        gr == BuildGraph(fs, SortedIds(DOMAIN st))
    IN  [gr EXCEPT !.Nodes = Put(@, f.ID, f), !.Upstream = Put(@, f.ID, f.DependsOn)]

\* addCmd. id is the id GenerateID drew (a slug plus four random bytes: it may
\* be the id of an existing file), now the time.Now() of felt.New, status the
\* -s flag ("" when not given), deps the -a flags in order
AddCmd(st, id, now, status, deps) ==
    LET f0 == Felt(id, status, <<>>, now)
    IN  IF Len(deps) > 0
        THEN LET r == ResolveAll(st, deps, 1)
             IN  IF ~r.ok THEN Result("notfound", st)
                 ELSE LET f == [f0 EXCEPT !.DependsOn =
                                   [i \in 1..Len(r.ids) |-> Dependency(r.ids[i], "")]]
                          gr == BuildGraph(Append(List(st), f),
                                           SortedIds((DOMAIN st) \cup {id}))
                      IN  IF AnyCycle(gr, f.ID, f.DependsOn, 1)
                          THEN Result("cycle", st)
                          ELSE Result("ok", Write(st, f))
        ELSE Result("ok", Write(st, f0))

\* linkCmd without the cycle check
LinkCmdNoCheck(st, src, dst, label) ==
    LET rf == Find(st, src)
        rd == Find(st, dst)
    IN  IF ~rf.ok THEN Result("notfound", st)
        ELSE IF ~rd.ok THEN Result("notfound", st)
        ELSE IF HasID(rf.felt.DependsOn, rd.felt.ID) THEN Result("already", st)
        ELSE Result("ok", Write(st, [rf.felt EXCEPT !.DependsOn =
                                        Append(@, Dependency(rd.felt.ID, label))]))

\* linkCmd
LinkCmd(st, src, dst, label) ==
    LET rf == Find(st, src)
        rd == Find(st, dst)
    IN  IF ~rf.ok THEN Result("notfound", st)
        ELSE IF ~rd.ok THEN Result("notfound", st)
        ELSE IF HasID(rf.felt.DependsOn, rd.felt.ID) THEN Result("already", st)
        ELSE LET f == [rf.felt EXCEPT !.DependsOn =
                          Append(@, Dependency(rd.felt.ID, label))]
                 gr == PatchedGraph(st, f)
             IN  IF DetectCycle(gr, f.ID, rd.felt.ID) THEN Result("cycle", st)
                 ELSE Result("ok", Write(st, f))

\* unlinkCmd
UnlinkCmd(st, src, dst) ==
    LET rf == Find(st, src)
        rd == Find(st, dst)
    IN  IF ~rf.ok THEN Result("notfound", st)
        ELSE IF ~rd.ok THEN Result("notfound", st)
        ELSE LET newDeps == SelectSeq(rf.felt.DependsOn, LAMBDA d : d.ID # rd.felt.ID)
             IN  IF ~HasID(rf.felt.DependsOn, rd.felt.ID) THEN Result("notlinked", st)
                 ELSE Result("ok", Write(st, [rf.felt EXCEPT !.DependsOn = newDeps]))

\* editCmd, --status: the switch on editStatus
EditStatus(f, status) ==
    IF status \in {StatusOpen, StatusActive} THEN [ok |-> TRUE, felt |-> [f EXCEPT !.Status = status]]
    ELSE IF status = StatusClosed THEN [ok |-> TRUE, felt |-> [f EXCEPT !.Status = StatusClosed]]
    ELSE IF status = "" THEN [ok |-> TRUE, felt |-> [f EXCEPT !.Status = ""]]
    ELSE [ok |-> FALSE, felt |-> f]

\* editCmd, --depends-on: append every resolved id not yet in the list
RECURSIVE EditAppend(_, _, _, _)
EditAppend(st, deps, qs, i) ==
    IF i > Len(qs) THEN [ok |-> TRUE, deps |-> deps]
    ELSE LET r == Find(st, qs[i])
         IN  IF ~r.ok THEN [ok |-> FALSE, deps |-> deps]
             ELSE IF HasID(deps, r.felt.ID) THEN EditAppend(st, deps, qs, i + 1)
             ELSE EditAppend(st, Append(deps, Dependency(r.felt.ID, "")), qs, i + 1)

\* editCmd saving the other field edits before the dependencies are checked
EditCmdWriteFirst(st, id, status, deps) ==
    LET rf == Find(st, id)
    IN  IF ~rf.ok THEN Result("notfound", st)
        ELSE IF ~(status.set \/ deps.set) THEN Result("nochange", st)
        ELSE LET e1 == IF status.set THEN EditStatus(rf.felt, status.val)
                       ELSE [ok |-> TRUE, felt |-> rf.felt]
             IN  IF ~e1.ok THEN Result("invalid", st)
                 ELSE IF ~deps.set THEN Result("ok", Write(st, e1.felt))
                 ELSE LET a == EditAppend(st, e1.felt.DependsOn, deps.val, 1)
                          f == [e1.felt EXCEPT !.DependsOn = a.deps]
                      IN  IF ~a.ok THEN Result("notfound", st)
                          ELSE IF AnyCycle(PatchedGraph(st, f), f.ID, f.DependsOn, 1)
                               THEN Result("cycle", Write(st, e1.felt))
                          ELSE Result("ok", Write(st, f))

\* editCmd with the flags --status and --depends-on
EditCmd(st, id, status, deps) ==
    LET rf == Find(st, id)
    IN  IF ~rf.ok THEN Result("notfound", st)
        ELSE IF ~(status.set \/ deps.set) THEN Result("nochange", st)
        ELSE LET e1 == IF status.set THEN EditStatus(rf.felt, status.val)
                       ELSE [ok |-> TRUE, felt |-> rf.felt]
             IN  IF ~e1.ok THEN Result("invalid", st)
                 ELSE IF ~deps.set THEN Result("ok", Write(st, e1.felt))
                 ELSE LET a == EditAppend(st, e1.felt.DependsOn, deps.val, 1)
                          f == [e1.felt EXCEPT !.DependsOn = a.deps]
                      IN  IF ~a.ok THEN Result("notfound", st)
                          ELSE IF AnyCycle(PatchedGraph(st, f), f.ID, f.DependsOn, 1)
                               THEN Result("cycle", st)
                          ELSE Result("ok", Write(st, f))

\* the dependents loop looking at the first dependency of each fiber only
RECURSIVE AnyDependentFirstDep(_, _, _)
AnyDependentFirstDep(fs, i, id) ==
    IF i > Len(fs) THEN FALSE
    ELSE IF Len(fs[i].DependsOn) > 0 /\ fs[i].DependsOn[1].ID = id THEN TRUE
    ELSE AnyDependentFirstDep(fs, i + 1, id)

\* rmCmd: refuse when any listed fiber has the id among its dependencies
RECURSIVE AnyDependent(_, _, _)
AnyDependent(fs, i, id) ==
    IF i > Len(fs) THEN FALSE
    ELSE IF HasID(fs[i].DependsOn, id) THEN TRUE
    ELSE AnyDependent(fs, i + 1, id)

\* rmCmd deleting without looking for dependents
RmCmdNoCheck(st, id) ==
    LET rf == Find(st, id)
    IN  IF ~rf.ok THEN Result("notfound", st)
        ELSE Result("ok", Delete(st, rf.felt.ID))

RmCmd(st, id) ==
    LET rf == Find(st, id)
    IN  IF ~rf.ok THEN Result("notfound", st)
        ELSE IF AnyDependent(List(st), 1, rf.felt.ID) THEN Result("dependents", st)
        ELSE Result("ok", Delete(st, rf.felt.ID))

\* readyCmd without --tag: the slices g.Ready() may return for the stored fibers
\* when the maps are iterated in the orders ordBuild and ordReady
ReadyCmd(st, ordBuild, ordReady) == Ready(BuildGraph(List(st), ordBuild), ordReady)

\* onCmd
OnCmd(st, id) ==
    LET rf == Find(st, id)
    IN  IF ~rf.ok THEN Result("notfound", st)
        ELSE Result("ok", Write(st, [rf.felt EXCEPT !.Status = StatusActive]))

\* offCmd; outcome is whether -o was given
OffCmd(st, id, outcome) ==
    LET rf == Find(st, id)
    IN  IF ~rf.ok THEN Result("notfound", st)
        ELSE IF HasStatus(rf.felt)
             THEN Result("ok", Write(st, [rf.felt EXCEPT !.Status = StatusClosed]))
        ELSE IF ~outcome THEN Result("nostatus", st)
        ELSE Result("ok", Write(st, rf.felt))

-----------------------------------------------------------------------------
(* Fiber lists handed to the engine: drawn from bounded sets *)

DepIdLists == UNION {[1..n -> Ids] : n \in 0..MaxDeps}

RECURSIVE TotalLen(_, _)
TotalLen(sh, ids) ==
    IF ids = <<>> THEN 0 ELSE Len(sh[Head(ids)]) + TotalLen(sh, Tail(ids))

\* present fibers and their dependency id lists
Shapes ==
    UNION {{sh \in [present -> DepIdLists] : TotalLen(sh, SortedIds(present)) <= MaxEdges}
            : present \in SUBSET Ids}

\* creation times: all fibers written in the same instant, or in reverse name order
CreatedChoices ==
    {[id \in Ids |-> 1],
     [id \in Ids |-> IF id = IdOrder[1] THEN 3 ELSE IF id = IdOrder[2] THEN 2 ELSE 1]}

\* the slice storage.List() returns for this directory content: file-name order;
\* the k-th dependency reference overall carries label lab[k]
RECURSIVE MkFelts(_, _, _, _, _, _)
MkFelts(sh, ids, st, lab, ct, off) ==
    IF ids = <<>> THEN <<>>
    ELSE LET id == Head(ids)
             deps == [i \in 1..Len(sh[id]) |-> Dependency(sh[id][i], lab[off + i])]
         IN  <<Felt(id, st[id], deps, ct[id])>>
             \o MkFelts(sh, Tail(ids), st, lab, ct, off + Len(sh[id]))

NoLabels == [k \in 1..MaxEdges |-> ""]
AllOpen == [id \in Ids |-> StatusOpen]
SameInstant == [id \in Ids |-> 1]

NoOp == [op |-> "none", args |-> <<>>, out |-> <<>>]

\* the directory holding the files of fs
RECURSIVE WriteAll(_, _, _)
WriteAll(st, fs, i) == IF i > Len(fs) THEN st ELSE WriteAll(Write(st, fs[i]), fs, i + 1)

\* the caller has loaded every fiber of some directory: felts = storage.List()
InitEngine(statusChoices, labelChoices, createdChoices) ==
    /\ \E sh \in Shapes, st \in statusChoices, lab \in labelChoices, ct \in createdChoices :
            store = WriteAll(EmptyMap, MkFelts(sh, SortedIds(DOMAIN sh), st, lab, ct, 0), 1)
    /\ felts = List(store)
    /\ g = NoGraph
    /\ last = NoOp
    /\ call = Idle

InitGraph == InitEngine({AllOpen}, {NoLabels}, {SameInstant})
InitReady == InitEngine([Ids -> Statuses], {NoLabels}, CreatedChoices)
InitBuild == InitEngine({AllOpen}, [1..MaxEdges -> Labels], {SameInstant})

-----------------------------------------------------------------------------
(* Engine operations as actions *)

FeltIds == {felts[i].ID : i \in 1..Len(felts)}

\* g := BuildGraph(felts); the second pass ranges over a map
DoBuildGraph ==
    /\ \E ord \in Perms(FeltIds) : g' = BuildGraph(felts, ord)
    /\ last' = [op |-> "BuildGraph", args |-> <<>>, out |-> <<>>]
    /\ UNCHANGED <<store, felts, call>>

DoGetUpstream ==
    /\ g.built
    /\ \E id \in Ids :
            last' = [op |-> "GetUpstream", args |-> <<id>>, out |-> GetUpstream(g, id)]
    /\ UNCHANGED <<store, felts, g, call>>

DoGetDownstream ==
    /\ g.built
    /\ \E id \in Ids :
            last' = [op |-> "GetDownstream", args |-> <<id>>, out |-> GetDownstream(g, id)]
    /\ UNCHANGED <<store, felts, g, call>>

\* depth 0 is --all, depth 1 the commands' default
DepthLimits == 0..MaxDepthLimit

DoGetUpstreamN ==
    /\ g.built
    /\ \E id \in Ids, depth \in DepthLimits :
            last' = [op |-> "GetUpstreamN", args |-> <<id, depth>>,
                     out |-> GetUpstreamN(g, id, depth)]
    /\ UNCHANGED <<store, felts, g, call>>

DoGetDownstreamN ==
    /\ g.built
    /\ \E id \in Ids, depth \in DepthLimits :
            last' = [op |-> "GetDownstreamN", args |-> <<id, depth>>,
                     out |-> GetDownstreamN(g, id, depth)]
    /\ UNCHANGED <<store, felts, g, call>>

\* DetectCycle trying the proposed edge out in g.Upstream and leaving it there
DoDetectCycleKeepEdge ==
    /\ g.built
    /\ \E from \in Ids, to \in Ids :
          /\ last' = [op |-> "DetectCycle", args |-> <<from, to>>,
                       out |-> DetectCycle(g, from, to)]
          /\ g' = [g EXCEPT !.Upstream =
                       Put(@, from, Append(Lookup(@, from), Dependency(to, "")))]
    /\ UNCHANGED <<store, felts, call>>

DoDetectCycle ==
    /\ g.built
    /\ \E from \in Ids, to \in Ids :
            last' = [op |-> "DetectCycle", args |-> <<from, to>>,
                     out |-> DetectCycle(g, from, to)]
    /\ UNCHANGED <<store, felts, g, call>>

DoFindCycles ==
    /\ g.built
    /\ \E ord \in Perms(DOMAIN g.Nodes) :
            last' = [op |-> "FindCycles", args |-> <<>>, out |-> FindCycles(g, ord)]
    /\ UNCHANGED <<store, felts, g, call>>

DoValidateDependencies ==
    /\ g.built
    /\ \E ord \in Perms(DOMAIN g.Upstream) :
            last' = [op |-> "ValidateDependencies", args |-> <<>>,
                     out |-> ValidateDependencies(g, ord)]
    /\ UNCHANGED <<store, felts, g, call>>

DoFindPath ==
    /\ g.built
    /\ \E from \in Ids, to \in Ids :
            last' = [op |-> "FindPath", args |-> <<from, to>>, out |-> FindPath(g, from, to)]
    /\ UNCHANGED <<store, felts, g, call>>

DoReady ==
    /\ g.built
    /\ \E ord \in Perms(DOMAIN g.Nodes) : \E r \in Ready(g, ord) :
            last' = [op |-> "Ready", args |-> <<>>, out |-> r]
    /\ UNCHANGED <<store, felts, g, call>>

NextGraph ==
    \/ DoBuildGraph
    \/ DoGetUpstream
    \/ DoGetDownstream
    \/ DoDetectCycle
    \/ DoFindCycles
    \/ DoValidateDependencies
    \/ DoFindPath
    \/ DoReady

NextReady ==
    \/ DoBuildGraph
    \/ DoReady

NextBuild == DoBuildGraph

\* the depth-limited traversals of the upstream and downstream commands
NextDepth ==
    \/ DoBuildGraph
    \/ DoGetUpstreamN
    \/ DoGetDownstreamN

\* FindPath on the fiber lists of InitGraph and on the four-fiber chains of
\* TestFindPath, which are built in memory and never stored
ChainIds == {"a", "b", "c", "d"}

\* p[1] depends on p[2] depends on p[3] depends on p[4], listed from p[4] to p[1]
Chain(p) ==
    [i \in 1..4 |->
        Felt(p[5 - i], StatusOpen,
             IF i = 1 THEN <<>> ELSE <<Dependency(p[5 - i + 1], "")>>, 1)]

InitChain ==
    /\ store = EmptyMap
    /\ \E p \in Perms(ChainIds) : felts = Chain(p)
    /\ g = NoGraph
    /\ last = NoOp
    /\ call = Idle

InitPath == InitGraph \/ InitChain

DoFindPathAny ==
    /\ g.built
    /\ \E from \in Ids \cup FeltIds, to \in Ids \cup FeltIds :
            last' = [op |-> "FindPath", args |-> <<from, to>>, out |-> FindPath(g, from, to)]
    /\ UNCHANGED <<store, felts, g, call>>

NextPath ==
    \/ DoBuildGraph
    \/ DoFindPathAny

\* g.ToText() on the graph under query
DoToText ==
    /\ g.built
    /\ \E r \in ToText(g) :
          /\ g' = [g EXCEPT !.Downstream = r.down]
          /\ last' = [op |-> "ToText", args |-> <<>>, out |-> r.out]
    /\ UNCHANGED <<store, felts, call>>

NextRender ==
    \/ DoBuildGraph
    \/ DoGetDownstream
    \/ DoToText

SpecGraph == InitGraph /\ [][NextGraph]_vars
SpecRender == InitGraph /\ [][NextRender]_vars
SpecDepth == InitGraph /\ [][NextDepth]_vars
SpecPath == InitPath /\ [][NextPath]_vars
SpecReady == InitReady /\ [][NextReady]_vars
SpecBuild == InitBuild /\ [][NextBuild]_vars

-----------------------------------------------------------------------------
(* The engine's loops, one iteration per step.  A call starts when no call   *)
(* is in progress, runs its loop on the graph g and ends in pc = "done";     *)
(* Return hands the result back.                                             *)

Running == call.pc \notin {"idle", "done"}

\* GetUpstream(id), GetDownstream(id), and DetectCycle(from, to), which walks
\* GetUpstream(to): queue := []string{start}; visited[start] = true
CallBfs ==
    /\ g.built /\ call.pc = "idle"
    /\ \/ \E op \in {"GetUpstream", "GetDownstream"}, id \in Ids :
             call' = [Idle EXCEPT !.op = op, !.pc = "loop", !.args = <<id>>,
                                  !.queue = <<id>>, !.visited = {id}]
       \/ \E from \in Ids, to \in Ids :
             call' = [Idle EXCEPT !.op = "DetectCycle", !.pc = "loop", !.args = <<from, to>>,
                                  !.queue = <<to>>, !.visited = {to}]
    /\ UNCHANGED <<store, felts, g, last>>

\* one iteration of for len(queue) > 0 in bfs; DetectCycle then ranges over the
\* result
BfsStep ==
    /\ call.op \in {"GetUpstream", "GetDownstream", "DetectCycle"}
    /\ call.pc = "loop" /\ call.steps < MaxSteps
    /\ LET adj == IF call.op = "GetDownstream" THEN g.Downstream ELSE g.Upstream
           start == call.args[Len(call.args)]
       IN  IF call.queue = <<>>
           THEN call' = [call EXCEPT !.pc = "done", !.steps = @ + 1,
                            !.result = IF call.op = "DetectCycle"
                                       THEN <<(Contains(call.result, 1, call.args[1])
                                               \/ call.args[1] = call.args[2])>>
                                       ELSE @]
           ELSE LET current == Head(call.queue)
                    sc == BfsScan(Lookup(adj, current), 1, call.visited, Tail(call.queue))
                IN  call' = [call EXCEPT !.queue = sc.queue, !.visited = sc.visited,
                                !.steps = @ + 1,
                                !.result = IF current # start THEN Append(@, current) ELSE @]
    /\ UNCHANGED <<store, felts, g, last>>

\* FindPath(from, to)
CallFindPath ==
    /\ g.built /\ call.pc = "idle"
    /\ \E from \in Ids, to \in Ids :
          call' = IF from = to
                  THEN [Idle EXCEPT !.op = "FindPath", !.pc = "done", !.args = <<from, to>>,
                                    !.found = PathOf(<<from>>)]
                  ELSE [Idle EXCEPT !.op = "FindPath", !.pc = "loop", !.args = <<from, to>>,
                                    !.queue = <<from>>, !.visited = {from}]
    /\ UNCHANGED <<store, felts, g, last>>

\* one iteration of for len(queue) > 0 in FindPath
PathStep ==
    /\ call.op = "FindPath" /\ call.pc = "loop" /\ call.steps < MaxSteps
    /\ IF call.queue = <<>>
       THEN call' = [call EXCEPT !.pc = "done", !.steps = @ + 1]
       ELSE LET current == Head(call.queue)
                st2 == PathScan(Lookup(g.Upstream, current), 1, current, call.args[2],
                                [visited |-> call.visited, parent |-> call.parent,
                                 queue |-> Tail(call.queue), found |-> NoPath])
            IN  call' = [call EXCEPT !.queue = st2.queue, !.visited = st2.visited,
                            !.parent = st2.parent, !.found = st2.found, !.steps = @ + 1,
                            !.pc = IF st2.found # NoPath THEN "done" ELSE "loop"]
    /\ UNCHANGED <<store, felts, g, last>>

\* Ready(), FindCycles() and ValidateDependencies(): each ranges over a map, in
\* the order ord
CallRange ==
    /\ g.built /\ call.pc = "idle"
    /\ \/ \E op \in {"Ready", "FindCycles"} : \E ord \in Perms(DOMAIN g.Nodes) :
             call' = [Idle EXCEPT !.op = op, !.pc = "range", !.ord = ord, !.k = 1]
       \/ \E ord \in Perms(DOMAIN g.Upstream) :
             call' = [Idle EXCEPT !.op = "ValidateDependencies", !.pc = "range",
                                  !.ord = ord, !.k = 1]
    /\ UNCHANGED <<store, felts, g, last>>

\* one iteration of for _, f := range g.Nodes in Ready, then the sort
ReadyStep ==
    /\ call.op = "Ready" /\ call.pc = "range" /\ call.steps < MaxSteps
    /\ IF call.k > Len(call.ord)
       THEN \E r \in SortByCreated(call.result) :
               call' = [call EXCEPT !.pc = "done", !.result = r, !.steps = @ + 1]
       ELSE LET f == g.Nodes[call.ord[call.k]]
            IN  call' = [call EXCEPT !.k = @ + 1, !.steps = @ + 1,
                            !.result = IF IsOpen(f) /\ AllDepsClosed(g, f.DependsOn, 1)
                                       THEN Append(@, f) ELSE @]
    /\ UNCHANGED <<store, felts, g, last>>

\* one iteration of for id, deps := range g.Upstream in ValidateDependencies
ValidateStep ==
    /\ call.op = "ValidateDependencies" /\ call.pc = "range" /\ call.steps < MaxSteps
    /\ IF call.k > Len(call.ord)
       THEN call' = [call EXCEPT !.pc = "done", !.steps = @ + 1]
       ELSE LET id == call.ord[call.k]
            IN  call' = [call EXCEPT !.k = @ + 1, !.steps = @ + 1,
                            !.result = @ \o ValidateDeps(g, id, g.Upstream[id], 1)]
    /\ UNCHANGED <<store, felts, g, last>>

\* a dfs activation: i = 0 before the visited tests, then the index of the
\* dependency the loop is at
Frame(id, path) == [id |-> id, path |-> path, i |-> 0]

Pop(stack) == SubSeq(stack, 1, Len(stack) - 1)

\* the frame below the returning one resumes its loop; the outer loop resumes
\* when the root activation returns
AfterPop(c, mark, result) ==
    [c EXCEPT !.stack = Pop(@), !.mark = mark, !.result = result, !.steps = @ + 1,
              !.pc = IF Len(c.stack) = 1 THEN "range" ELSE "dfs"]

\* one iteration of for id := range g.Nodes in FindCycles: call dfs(id, nil)
CyclesRangeStep ==
    /\ call.op = "FindCycles" /\ call.pc = "range" /\ call.steps < MaxSteps
    /\ IF call.k > Len(call.ord)
       THEN call' = [call EXCEPT !.pc = "done", !.steps = @ + 1]
       ELSE IF Mark(call.mark, call.ord[call.k]) = 0
       THEN call' = [call EXCEPT !.k = @ + 1, !.steps = @ + 1, !.pc = "dfs",
                        !.stack = <<Frame(call.ord[call.k], <<>>)>>]
       ELSE call' = [call EXCEPT !.k = @ + 1, !.steps = @ + 1]
    /\ UNCHANGED <<store, felts, g, last>>

\* one step of the innermost dfs activation: its entry, or one iteration of its
\* dependency loop, or its return
DfsStep ==
    /\ call.op = "FindCycles" /\ call.pc = "dfs" /\ call.steps < MaxSteps
    /\ LET n == Len(call.stack)
           top == call.stack[n]
           deps == Lookup(g.Upstream, top.id)
       IN  IF top.i = 0
           THEN IF Mark(call.mark, top.id) = 1
                THEN LET cycleStart == IndexOf(top.path, 1, top.id)
                     IN  call' = AfterPop(call, call.mark,
                                    IF cycleStart >= 1
                                    THEN Append(call.result,
                                            Append(SubSeq(top.path, cycleStart, Len(top.path)),
                                                   top.id))
                                    ELSE call.result)
                ELSE IF Mark(call.mark, top.id) = 2
                THEN call' = AfterPop(call, call.mark, call.result)
                ELSE call' = [call EXCEPT !.mark = Put(@, top.id, 1), !.steps = @ + 1,
                                 !.stack[n] = [top EXCEPT !.path = Append(@, top.id), !.i = 1]]
           ELSE IF top.i > Len(deps)
                THEN call' = AfterPop(call, Put(call.mark, top.id, 2), call.result)
                ELSE IF deps[top.i].ID \in DOMAIN g.Nodes
                THEN call' = [call EXCEPT !.steps = @ + 1,
                                 !.stack = Append([@ EXCEPT ![n].i = top.i + 1],
                                                  Frame(deps[top.i].ID, top.path))]
                ELSE call' = [call EXCEPT !.steps = @ + 1, !.stack[n].i = top.i + 1]
    /\ UNCHANGED <<store, felts, g, last>>

\* the call returns to its caller
Return ==
    /\ call.pc = "done"
    /\ call' = Idle
    /\ UNCHANGED <<store, felts, g, last>>

\* the running call executes its next iteration
StepCall == BfsStep \/ PathStep \/ ReadyStep \/ ValidateStep \/ CyclesRangeStep \/ DfsStep

BuildWhenIdle == ~g.built /\ call.pc = "idle" /\ DoBuildGraph

NextSteps ==
    \/ BuildWhenIdle
    \/ CallBfs
    \/ CallFindPath
    \/ CallRange
    \/ BfsStep
    \/ PathStep
    \/ ReadyStep
    \/ ValidateStep
    \/ CyclesRangeStep
    \/ DfsStep
    \/ Return

\* a call that has started keeps executing
SpecSteps == InitGraph /\ [][NextSteps]_vars /\ WF_vars(StepCall)

-----------------------------------------------------------------------------
(* The CLI as a state machine over the store *)

\* time.Now() at felt.New
Times == {1}

DepFlags == {NoFlag} \cup {Flag(q) : q \in DepIdLists \ {<<>>}}

Init ==
    /\ store = EmptyMap
    /\ felts = <<>>
    /\ g = NoGraph
    /\ last = NoOp
    /\ call = Idle

\* felt add <title> [-s status] [-a dep]...
DoAdd(statusChoices, depChoices) ==
    /\ last.op = "none"
    /\ \E id \in Ids, now \in Times, status \in statusChoices, deps \in depChoices :
          LET r == AddCmd(store, id, now, status, deps)
          IN  /\ store' = r.store
              /\ last' = [op |-> "add", args |-> <<id>>, out |-> r.out]
    /\ UNCHANGED <<felts, g, call>>

\* felt link <id> <depends-on-id> [-l label]
DoLink(labelChoices) ==
    /\ last.op = "none"
    /\ \E src \in Ids, dst \in Ids, label \in labelChoices :
          LET r == LinkCmd(store, src, dst, label)
          IN  /\ store' = r.store
              /\ last' = [op |-> "link", args |-> <<src, dst>>, out |-> r.out]
    /\ UNCHANGED <<felts, g, call>>

\* felt unlink <id> <depends-on-id>
DoUnlink ==
    /\ last.op = "none"
    /\ \E src \in Ids, dst \in Ids :
          LET r == UnlinkCmd(store, src, dst)
          IN  /\ store' = r.store
              /\ last' = [op |-> "unlink", args |-> <<src, dst>>, out |-> r.out]
    /\ UNCHANGED <<felts, g, call>>

\* felt edit <id> [-s status] [-a dep]...
DoEdit(statusFlags, depFlags) ==
    /\ last.op = "none"
    /\ \E id \in Ids, status \in statusFlags, deps \in depFlags :
          LET r == EditCmd(store, id, status, deps)
          IN  /\ store' = r.store
              /\ last' = [op |-> "edit",
                          args |-> <<id>> \o (IF status.set THEN <<"--status">> ELSE <<>>)
                                        \o (IF deps.set THEN <<"--depends-on">> ELSE <<>>),
                          out |-> r.out]
    /\ UNCHANGED <<felts, g, call>>

\* felt rm <id>
DoRm ==
    /\ last.op = "none"
    /\ \E id \in Ids :
          LET r == RmCmd(store, id)
          IN  /\ store' = r.store
              /\ last' = [op |-> "rm", args |-> <<id>>, out |-> r.out]
    /\ UNCHANGED <<felts, g, call>>

\* felt on <id>
DoOn ==
    /\ last.op = "none"
    /\ \E id \in Ids :
          LET r == OnCmd(store, id)
          IN  /\ store' = r.store
              /\ last' = [op |-> "on", args |-> <<id>>, out |-> r.out]
    /\ UNCHANGED <<felts, g, call>>

\* felt off <id> [-o outcome]
DoOff ==
    /\ last.op = "none"
    /\ \E id \in Ids, outcome \in BOOLEAN :
          LET r == OffCmd(store, id, outcome)
          IN  /\ store' = r.store
              /\ last' = [op |-> "off", args |-> <<id>>, out |-> r.out]
    /\ UNCHANGED <<felts, g, call>>

\* felt ready
DoReadyCmd ==
    /\ last.op = "none"
    /\ \E ordBuild \in Perms(DOMAIN store), ordReady \in Perms(DOMAIN store) :
          \E r \in ReadyCmd(store, ordBuild, ordReady) :
              last' = [op |-> "ready", args |-> <<>>, out |-> r]
    /\ UNCHANGED <<store, felts, g, call>>

\* the process exits; the next invocation starts from the store it left
Exit ==
    /\ last.op # "none"
    /\ last' = NoOp
    /\ UNCHANGED <<store, felts, g, call>>

\* The dependency-writing commands. Status enters through edit -s only: fibers
\* are created untracked and edit closes them or is refused an invalid status;
\* link is run without -l.
Next ==
    \/ DoAdd({""}, DepIdLists)
    \/ DoLink({""})
    \/ DoUnlink
    \/ DoEdit({NoFlag, Flag(StatusClosed), Flag("bogus")}, DepFlags)
    \/ DoRm
    \/ Exit

Spec == Init /\ [][Next]_vars

\* The status-tracking commands: fibers are created untracked or open, with at
\* most one -a flag, and linked without a label; edit changes the status only;
\* on, off and ready.
OneDepOrNone == {q \in DepIdLists : Len(q) <= 1}

NextTrack ==
    \/ DoAdd({"", StatusOpen}, OneDepOrNone)
    \/ DoLink({""})
    \/ DoEdit({Flag(""), Flag(StatusOpen), Flag(StatusActive), Flag(StatusClosed)}, {NoFlag})
    \/ DoOn
    \/ DoOff
    \/ DoReadyCmd
    \/ Exit

SpecTrack == Init /\ [][NextTrack]_vars

\* Working a directory off: felt ready, then felt off on one of the fibers it
\* listed, again and again. The directory holds any fiber list, each fiber
\* open or closed.
OpenOrClosed == [Ids -> {StatusOpen, StatusClosed}]

InitDrain == InitEngine(OpenOrClosed, {NoLabels}, {SameInstant})

LoopReady ==
    /\ last.op # "ready"
    /\ \E ordBuild \in Perms(DOMAIN store), ordReady \in Perms(DOMAIN store) :
          \E r \in ReadyCmd(store, ordBuild, ordReady) :
              last' = [op |-> "ready", args |-> <<>>, out |-> r]
    /\ UNCHANGED <<store, felts, g, call>>

LoopOff ==
    /\ last.op = "ready"
    /\ \E i \in 1..Len(last.out) :
          LET r == OffCmd(store, last.out[i].ID, FALSE)
          IN  /\ store' = r.store
              /\ last' = [op |-> "off", args |-> <<last.out[i].ID>>, out |-> r.out]
    /\ UNCHANGED <<felts, g, call>>

NextDrain ==
    \/ LoopReady
    \/ LoopOff

\* ready is run again and again, and one of the listed fibers is closed
\* whenever there is one. LoopReady is enabled exactly when last.op # "ready"
\* and leaves last.op = "ready", so []<>(last.op = "ready") is WF_vars(LoopReady).
SpecDrain ==
    InitDrain /\ [][NextDrain]_vars /\ []<>(last.op = "ready") /\ WF_vars(LoopOff)

-----------------------------------------------------------------------------
(* Reachability, defined without the engine's traversals *)

\* x lists y in adjacency map m
Edge(m, x, y) == HasID(Lookup(m, x), y)

Succ(m, S) == UNION {{m[x][i].ID : i \in 1..Len(m[x])} : x \in S \cap DOMAIN m}

RECURSIVE Closure(_, _)
Closure(m, S) == LET n == S \cup Succ(m, S) IN IF n = S THEN S ELSE Closure(m, n)

\* the ids reachable from x by one or more edges of m
ReachFrom(m, x) == Closure(m, Succ(m, {x}))

\* upstream edges between fibers that are both in nodes
LiveUpstream(gr) ==
    [x \in DOMAIN gr.Nodes |-> SelectSeq(Lookup(gr.Upstream, x),
                                          LAMBDA d : d.ID \in DOMAIN gr.Nodes)]

HasCycle(gr) == \E x \in DOMAIN gr.Nodes : x \in ReachFrom(LiveUpstream(gr), x)

NoDup(s) == \A i, j \in 1..Len(s) : i # j => s[i] # s[j]

-----------------------------------------------------------------------------
(* Properties of the engine *)

\* C2: DetectCycle(from, to) is true exactly when from == to or to already
\* transitively depends on from (from is reachable from to over upstream edges).
C2_DetectCycleIffReachable ==
    last.op = "DetectCycle" =>
        LET from == last.args[1]
            to == last.args[2]
        IN  last.out = ((from = to) \/ (from \in ReachFrom(g.Upstream, to)))

C2_Witness ==
    /\ last.op = "DetectCycle"
    /\ last.args[1] # last.args[2]
    /\ last.out = TRUE
    /\ ~Edge(g.Upstream, last.args[2], last.args[1])

\* C3: Ready returns exactly the open fibers all of whose dependency references
\* name a fiber of nodes that is closed, each once; nothing else is returned.
C3_ReadyExact ==
    last.op = "Ready" =>
        /\ NoDup(last.out)
        /\ Range(last.out) =
              {g.Nodes[id] : id \in
                {x \in DOMAIN g.Nodes :
                    /\ g.Nodes[x].Status = StatusOpen
                    /\ \A i \in 1..Len(g.Upstream[x]) :
                          /\ g.Upstream[x][i].ID \in DOMAIN g.Nodes
                          /\ g.Nodes[g.Upstream[x][i].ID].Status = StatusClosed}}

\* an open fiber with a closed dependency is returned, an active one without
\* dependencies is not
C3_Witness ==
    /\ last.op = "Ready"
    /\ \E i \in 1..Len(last.out) : Len(last.out[i].DependsOn) >= 1
    /\ \E x \in DOMAIN g.Nodes :
          /\ g.Nodes[x].Status = StatusActive
          /\ g.Upstream[x] = <<>>

\* C4 (as stated): whenever B is in upstream[A], A appears exactly once in
\* downstream[B], with the label of the upstream[A] entry for B, and downstream
\* holds nothing that is not the inverse of an upstream entry.
C4_ExactlyOnce ==
    g.built =>
        /\ \A A \in Ids, B \in Ids :
              HasID(Lookup(g.Upstream, A), B) =>
                /\ Cardinality({i \in 1..Len(Lookup(g.Downstream, B)) :
                                    g.Downstream[B][i].ID = A}) = 1
                /\ \A i \in 1..Len(Lookup(g.Downstream, B)) :
                      g.Downstream[B][i].ID = A =>
                         \E j \in 1..Len(g.Upstream[A]) :
                            g.Upstream[A][j] = Dependency(B, g.Downstream[B][i].Label)
        /\ \A B \in DOMAIN g.Downstream : \A i \in 1..Len(g.Downstream[B]) :
              \E j \in 1..Len(Lookup(g.Upstream, g.Downstream[B][i].ID)) :
                 g.Upstream[g.Downstream[B][i].ID][j] = Dependency(B, g.Downstream[B][i].Label)

\* C4 (amended): downstream[B] holds one entry (A, label) per entry (B, label) of
\* upstream[A], and nothing else; so A appears exactly once in downstream[B]
\* when upstream[A] names B exactly once.
C4_InverseMultiset ==
    g.built =>
        /\ \A A \in Ids, B \in Ids, l \in Labels :
              Count(Lookup(g.Downstream, B), Dependency(A, l))
                = Count(Lookup(g.Upstream, A), Dependency(B, l))
        /\ \A B \in DOMAIN g.Downstream : \A i \in 1..Len(g.Downstream[B]) :
              /\ g.Downstream[B][i].ID \in Ids
              /\ g.Downstream[B][i].Label \in Labels

C4_Witness ==
    /\ g.built
    /\ \E A \in DOMAIN g.Upstream, B \in Ids :
          /\ Count(g.Upstream[A], Dependency(B, "")) = 1
          /\ Count(g.Upstream[A], Dependency(B, "why")) = 1
          /\ Len(g.Downstream[B]) >= 3

\* C5: GetUpstream(id) returns exactly the ids other than id reachable from id by
\* one or more upstream edges, each once, never id; GetDownstream likewise over
\* downstream edges.
C5_TraversalExact ==
    /\ last.op = "GetUpstream" =>
          /\ NoDup(last.out)
          /\ Range(last.out) = ReachFrom(g.Upstream, last.args[1]) \ {last.args[1]}
    /\ last.op = "GetDownstream" =>
          /\ NoDup(last.out)
          /\ Range(last.out) = ReachFrom(g.Downstream, last.args[1]) \ {last.args[1]}

C5_Witness ==
    /\ last.op = "GetUpstream"
    /\ last.args[1] \in ReachFrom(g.Upstream, last.args[1])
    /\ Len(last.out) = 2

\* the ids reachable from x by between 1 and n edges of m
RECURSIVE WithinFrom(_, _, _)
WithinFrom(m, S, n) ==
    IF n = 0 THEN {} ELSE Succ(m, S) \cup WithinFrom(m, Succ(m, S), n - 1)

\* C11: with depth limit 1 the depth-limited traversals return exactly the direct
\* neighbours of id (never id itself) and nothing at distance 2 or more; with
\* limit 0 the full transitive closure; with limit n exactly the ids within
\* distance n, those at distance n included and nothing beyond them.
C11_DepthLimit ==
    (last.op \in {"GetUpstreamN", "GetDownstreamN"}) =>
        LET id == last.args[1]
            n == last.args[2]
            adj == IF last.op = "GetUpstreamN" THEN g.Upstream ELSE g.Downstream
        IN  /\ NoDup(last.out)
            /\ n = 0 => Range(last.out) = ReachFrom(adj, id) \ {id}
            /\ n = 1 => Range(last.out) = Succ(adj, {id}) \ {id}
            /\ n >= 1 => Range(last.out) = WithinFrom(adj, {id}, n) \ {id}

\* a depth-1 query on a fiber with a neighbour at distance 2 that is left out
C11_Witness ==
    /\ last.op = "GetDownstreamN"
    /\ last.args[2] = 1
    /\ Len(last.out) = 1
    /\ (ReachFrom(g.Downstream, last.args[1]) \ {last.args[1]}) \ Range(last.out) # {}

\* the only dependency reference of the graph is A's reference to B
OnlyEdge(gr, A, B) ==
    /\ A \in DOMAIN gr.Upstream
    /\ [i \in 1..Len(gr.Upstream[A]) |-> gr.Upstream[A][i].ID] = <<B>>
    /\ \A x \in (DOMAIN gr.Upstream) \ {A} : gr.Upstream[x] = <<>>

\* C14 (as stated): on a graph whose only edge is "A depends on B",
\* DetectCycle(A, B) - re-adding the edge that exists - returns true.
C14_ReAddIsCycle ==
    (/\ last.op = "DetectCycle"
     /\ last.args[1] # last.args[2]
     /\ OnlyEdge(g, last.args[1], last.args[2]))
    => last.out = TRUE

\* C14 (amended): on a graph whose only edge is "A depends on B" (A # B),
\* DetectCycle(A, B) - re-adding the edge that exists - returns false, and
\* DetectCycle(B, A), the reverse edge, returns true.
C14_ReAddIsNoCycle ==
    last.op = "DetectCycle" =>
        \A A \in Ids : \A B \in Ids \ {A} :
            OnlyEdge(g, A, B) =>
                /\ last.args = <<A, B>> => last.out = FALSE
                /\ last.args = <<B, A>> => last.out = TRUE

C14_Witness ==
    /\ last.op = "DetectCycle"
    /\ last.args[1] # last.args[2]
    /\ OnlyEdge(g, last.args[1], last.args[2])
    /\ last.args[2] \in DOMAIN g.Nodes
    /\ last.out = FALSE

C16_RebuildIdentical ==
    [][(g.built /\ g'.built /\ felts' = felts) =>
          /\ g'.Nodes = g.Nodes
          /\ g'.Upstream = g.Upstream
          /\ g'.Downstream = g.Downstream]_vars

\* C6: FindCycles returns no description exactly when the upstream edges between
\* fibers of nodes have no directed cycle (self-loops are cycles); the 3-cycle
\* a -> b -> c -> a yields a description naming a, b and c.
C6_FindCyclesIffCyclic ==
    last.op = "FindCycles" =>
        /\ (last.out = <<>>) <=> ~HasCycle(g)
        /\ (/\ DOMAIN g.Nodes = Ids
            /\ \E p \in Perms(Ids) :
                  /\ \A i \in 1..3 : HasID(g.Upstream[p[i]], p[(i % 3) + 1])
                  /\ \A i \in 1..3 : Len(g.Upstream[p[i]]) = 1)
           => \E k \in 1..Len(last.out) : Ids \subseteq Range(last.out[k])

C6_Witness ==
    /\ last.op = "FindCycles"
    /\ \E k \in 1..Len(last.out) : Ids \subseteq Range(last.out[k])
    /\ \A x \in Ids : Len(Lookup(g.Upstream, x)) = 1

\* C7: FindPath(from, from) is [from]; for from # to it returns a path exactly
\* when to is reachable from from over upstream edges, and the path goes from
\* from to to along upstream edges; otherwise it returns nil.
C7_FindPathExact ==
    last.op = "FindPath" =>
        LET from == last.args[1]
            to == last.args[2]
            r == last.out
        IN  /\ from = to => r = PathOf(<<from>>)
            /\ from # to =>
                  /\ ~r.isNil <=> to \in ReachFrom(g.Upstream, from)
                  /\ r.isNil => r = NoPath
                  /\ ~r.isNil =>
                        /\ Len(r.path) >= 2
                        /\ r.path[1] = from
                        /\ r.path[Len(r.path)] = to
                        /\ \A i \in 1..(Len(r.path) - 1) :
                              Edge(g.Upstream, r.path[i], r.path[i + 1])

C7_Witness ==
    /\ last.op = "FindPath"
    /\ ~last.out.isNil
    /\ Len(last.out.path) = 3
    /\ HasCycle(g)

\* D depends on C depends on B depends on A, and the graph holds nothing else
IsChain(gr, D, C, B, A) ==
    /\ DOMAIN gr.Upstream = {A, B, C, D}
    /\ Cardinality({A, B, C, D}) = 4
    /\ gr.Upstream[D] = <<Dependency(C, "")>>
    /\ gr.Upstream[C] = <<Dependency(B, "")>>
    /\ gr.Upstream[B] = <<Dependency(A, "")>>
    /\ gr.Upstream[A] = <<>>

\* C17: in an acyclic graph, for distinct from and to, FindPath(from, to) and
\* FindPath(to, from) never both return a path; on the chain where D depends on
\* C depends on B depends on A, FindPath(D, A) is [D, C, B, A] and FindPath(A, D)
\* is no path.
C17_PathOneWay ==
    last.op = "FindPath" =>
        LET from == last.args[1]
            to == last.args[2]
        IN  /\ (from # to /\ ~HasCycle(g)) =>
                  ~(~last.out.isNil /\ ~FindPath(g, to, from).isNil)
            /\ \A p \in Perms(ChainIds) :
                  IsChain(g, p[1], p[2], p[3], p[4]) =>
                     /\ last.args = <<p[1], p[4]>> => last.out = PathOf(<<p[1], p[2], p[3], p[4]>>)
                     /\ last.args = <<p[4], p[1]>> => last.out = NoPath

\* the path along the whole four-fiber chain was returned
C17_Witness ==
    /\ last.op = "FindPath"
    /\ ~last.out.isNil
    /\ Len(last.out.path) = 4
    /\ IsChain(g, last.out.path[1], last.out.path[2], last.out.path[3], last.out.path[4])

QueryOps ==
    {"GetUpstream", "GetDownstream", "Ready", "DetectCycle", "FindCycles",
     "ValidateDependencies", "FindPath"}

\* what the query op with arguments args can return on the graph gr
QueryResults(gr, op, args) ==
    CASE op = "GetUpstream" -> {GetUpstream(gr, args[1])}
      [] op = "GetDownstream" -> {GetDownstream(gr, args[1])}
      [] op = "DetectCycle" -> {DetectCycle(gr, args[1], args[2])}
      [] op = "FindPath" -> {FindPath(gr, args[1], args[2])}
      [] op = "FindCycles" -> {FindCycles(gr, ord) : ord \in Perms(DOMAIN gr.Nodes)}
      [] op = "ValidateDependencies" ->
            {ValidateDependencies(gr, ord) : ord \in Perms(DOMAIN gr.Upstream)}
      [] op = "Ready" -> UNION {Ready(gr, ord) : ord \in Perms(DOMAIN gr.Nodes)}

\* C18: GetUpstream, GetDownstream, Ready, DetectCycle, FindCycles,
\* ValidateDependencies and FindPath leave nodes, upstream and downstream as they
\* were, and what each returns is what it returns on the graph as it was before
\* the call, whatever queries ran earlier.
C18_QueriesReadOnly ==
    [][(g.built /\ last'.op \in QueryOps) =>
          /\ g'.Nodes = g.Nodes
          /\ g'.Upstream = g.Upstream
          /\ g'.Downstream = g.Downstream
          /\ last'.out \in QueryResults(g', last'.op, last'.args)]_vars

\* a cycle check between two fibers returned false and the proposed edge is not
\* in the graph
C18_Witness ==
    /\ last.op = "DetectCycle"
    /\ last.out = FALSE
    /\ {last.args[1], last.args[2]} \subseteq DOMAIN g.Nodes
    /\ g.Upstream[last.args[1]] = <<>>
    /\ g.Downstream # EmptyMap

\* what the call that has just finished returned
Returned == IF call.op = "FindPath" THEN call.found
            ELSE IF call.op = "DetectCycle" THEN call.result[1]
            ELSE call.result

\* C19: every engine operation (GetUpstream, GetDownstream, Ready, DetectCycle,
\* FindCycles, ValidateDependencies, FindPath) terminates on every finite graph,
\* graphs with cycles, self-loops and dangling references included: a call in
\* progress eventually returns.
C19_Terminates == Running ~> (call.pc = "done")

\* FindCycles has returned a cycle on a graph that also has a dangling reference
C19_Witness ==
    /\ call.op = "FindCycles"
    /\ call.pc = "done"
    /\ call.result # <<>>
    /\ \E x \in DOMAIN g.Upstream : \E i \in 1..Len(g.Upstream[x]) :
          g.Upstream[x][i].ID \notin DOMAIN g.Nodes

\* the least number of edges of m leading from start to x (x reachable)
Dist(m, start, x) ==
    CHOOSE n \in 1..Cardinality(ReachFrom(m, start)) :
        /\ x \in WithinFrom(m, {start}, n)
        /\ \A k \in 1..(n - 1) : x \notin WithinFrom(m, {start}, k)

\* C22: the result of GetUpstream / GetDownstream is in level order: ids
\* appear in non-decreasing order of their shortest edge distance from the
\* start id, and each id appears once.
C22_LevelOrder ==
    (last.op \in {"GetUpstream", "GetDownstream"}) =>
        LET id == last.args[1]
            adj == IF last.op = "GetUpstream" THEN g.Upstream ELSE g.Downstream
        IN  /\ NoDup(last.out)
            /\ \A i \in 1..Len(last.out) : last.out[i] \in ReachFrom(adj, id)
            /\ \A i \in 1..Len(last.out) : \A j \in (i + 1)..Len(last.out) :
                  Dist(adj, id, last.out[i]) <= Dist(adj, id, last.out[j])

\* a result spanning two levels, the farther id also reachable a second way
C22_Witness ==
    /\ last.op = "GetUpstream"
    /\ Len(last.out) = 2
    /\ Dist(g.Upstream, last.args[1], last.out[1]) = 1
    /\ Dist(g.Upstream, last.args[1], last.out[2]) = 2
    /\ Edge(g.Upstream, last.out[2], last.out[1])

\* C23: if a fiber A, or an ancestor of A, lists a dependency id X that is
\* absent from nodes, then X appears in GetUpstream(A): the dangling edge is
\* traversed and the result holds an id with no fiber.
C23_DanglingTraversed ==
    (last.op = "GetUpstream" /\ last.args[1] \in DOMAIN g.Nodes) =>
        \A X \in ReachFrom(g.Upstream, last.args[1]) \ DOMAIN g.Nodes :
            \E i \in 1..Len(last.out) : last.out[i] = X

\* the dangling id is listed by an ancestor, not by the start fiber itself
C23_Witness ==
    /\ last.op = "GetUpstream"
    /\ last.args[1] \in DOMAIN g.Nodes
    /\ \E X \in ReachFrom(g.Upstream, last.args[1]) \ DOMAIN g.Nodes :
          /\ ~Edge(g.Upstream, last.args[1], X)
          /\ \E i \in 1..Len(last.out) : last.out[i] = X

\* C24: whenever FindPath(from, to) returns a path it is a shortest one: no
\* sequence of upstream edges from from to to has fewer edges than it.
C24_FindPathShortest ==
    (last.op = "FindPath" /\ ~last.out.isNil) =>
        LET from == last.args[1]
            to == last.args[2]
        IN  IF from = to
            THEN Len(last.out.path) = 1
            ELSE /\ to \in ReachFrom(g.Upstream, from)
                 /\ Len(last.out.path) - 1 = Dist(g.Upstream, from, to)

\* a path of one edge was returned although a route of two edges exists and
\* its first edge is listed first
C24_Witness ==
    /\ last.op = "FindPath"
    /\ ~last.out.isNil
    /\ Len(last.out.path) = 2
    /\ \E m \in DOMAIN g.Nodes :
          /\ Len(g.Upstream[last.args[1]]) = 2
          /\ g.Upstream[last.args[1]][1].ID = m
          /\ m \notin {last.args[1], last.args[2]}
          /\ Edge(g.Upstream, m, last.args[2])

\* C27: on every graph returned by build and for all ids A and B, B is in
\* GetUpstream(A) if and only if A is in GetDownstream(B).
C27_UpDownDual ==
    /\ last.op = "GetUpstream" =>
          \A B \in Ids :
             (B \in Range(last.out)) <=> (last.args[1] \in Range(GetDownstream(g, B)))
    /\ last.op = "GetDownstream" =>
          \A A \in Ids :
             (A \in Range(last.out)) <=> (last.args[1] \in Range(GetUpstream(g, A)))

\* an id without a fiber, two edges above the start, found in both directions
C27_Witness ==
    /\ last.op = "GetUpstream"
    /\ \E B \in Ids \ DOMAIN g.Nodes :
          /\ B \in Range(last.out)
          /\ ~Edge(g.Upstream, last.args[1], B)
          /\ last.args[1] \in Range(GetDownstream(g, B))

\* C28: on every graph and for all ids from, to: DetectCycle(from, to) is true
\* if and only if FindPath(to, from) returns a path.
C28_DetectCycleIffPath ==
    /\ last.op = "DetectCycle" =>
          (last.out <=> ~FindPath(g, last.args[2], last.args[1]).isNil)
    /\ last.op = "FindPath" =>
          (~last.out.isNil <=> DetectCycle(g, last.args[2], last.args[1]))

\* a cycle reported for distinct ids that FindPath joins by two edges
C28_Witness ==
    /\ last.op = "DetectCycle"
    /\ last.out
    /\ last.args[1] # last.args[2]
    /\ ~FindPath(g, last.args[2], last.args[1]).isNil
    /\ Len(FindPath(g, last.args[2], last.args[1]).path) = 3

\* C25: after build, downstream is never changed by a later operation on the
\* graph: every downstream[id] is the same sequence, same entries in the same
\* order, before and after any query or rendering call, ToText included.
C25_DownstreamFrozen ==
    [][(g.built /\ last'.op # "BuildGraph") => g'.Downstream = g.Downstream]_vars

\* the node sets of the simple cycles of the upstream edges between fibers
CycleSets(gr) ==
    {S \in SUBSET (DOMAIN gr.Nodes) :
        /\ S # {}
        /\ \E p \in Perms(S) :
              \A i \in 1..Len(p) :
                 Edge(gr.Upstream, p[i], p[(i % Len(p)) + 1])}

\* description d closes on an edge between two fibers of S
ClosesIn(d, S) == Len(d) >= 2 /\ d[Len(d) - 1] \in S /\ d[Len(d)] \in S

\* C21: FindCycles reports a description for each cycle of a family of
\* node-disjoint cycles (self-loops included), a different one for each; and
\* every description is a closed walk: first and last id are equal and each
\* consecutive pair (x, y) has y in upstream[x] with y in nodes.
C21_DisjointCyclesReported ==
    last.op = "FindCycles" =>
        /\ \A S \in CycleSets(g) : \E k \in 1..Len(last.out) : ClosesIn(last.out[k], S)
        /\ \A S1 \in CycleSets(g), S2 \in CycleSets(g) :
              S1 \cap S2 = {} =>
                 \E k1 \in 1..Len(last.out), k2 \in 1..Len(last.out) :
                    /\ k1 # k2
                    /\ ClosesIn(last.out[k1], S1)
                    /\ ClosesIn(last.out[k2], S2)
        /\ \A k \in 1..Len(last.out) :
              LET d == last.out[k]
              IN  /\ Len(d) >= 2
                  /\ d[1] = d[Len(d)]
                  /\ \A i \in 1..(Len(d) - 1) :
                        /\ Edge(g.Upstream, d[i], d[i + 1])
                        /\ d[i + 1] \in DOMAIN g.Nodes

\* a self-loop and a disjoint two-fiber cycle, both reported
C21_Witness ==
    /\ last.op = "FindCycles"
    /\ Len(last.out) = 2
    /\ \E S1 \in CycleSets(g), S2 \in CycleSets(g) :
          /\ S1 \cap S2 = {}
          /\ Cardinality(S1) = 1
          /\ Cardinality(S2) = 2

\* C8: ValidateDependencies returns one error per dependency reference whose id
\* is absent from nodes, naming the source fiber and the missing id, and no
\* other error; it returns nothing exactly when every referenced id exists.
C8_ValidateExact ==
    last.op = "ValidateDependencies" =>
        /\ \A src \in Ids, missing \in Ids :
              Count(last.out, DepError(src, missing)) =
                 IF missing \in DOMAIN g.Nodes THEN 0
                 ELSE Cardinality({i \in 1..Len(Lookup(g.Upstream, src)) :
                                      g.Upstream[src][i].ID = missing})
        /\ \A k \in 1..Len(last.out) :
              last.out[k].src \in Ids /\ last.out[k].missing \in Ids
        /\ (last.out = <<>>) <=>
              \A x \in DOMAIN g.Upstream : \A i \in 1..Len(g.Upstream[x]) :
                 g.Upstream[x][i].ID \in DOMAIN g.Nodes

C8_Witness ==
    /\ last.op = "ValidateDependencies"
    /\ Len(last.out) >= 2
    /\ \E x \in DOMAIN g.Upstream : \E i \in 1..Len(g.Upstream[x]) :
          g.Upstream[x][i].ID \in DOMAIN g.Nodes

-----------------------------------------------------------------------------
(* Properties of the commands *)

\* the graph a later invocation builds from the store
StoreGraph == BuildGraph(List(store), SortedIds(DOMAIN store))

\* C1: after any sequence of add, link, edit, unlink, rm and status changes from
\* the empty store, FindCycles on a graph built from the store returns no cycle.
C1_StoreAcyclic ==
    \A ord \in Perms(DOMAIN store) : FindCycles(StoreGraph, ord) = <<>>

\* a link closing a loop through three stored fibers was refused
C1_Witness ==
    /\ last.op = "link"
    /\ last.out = "cycle"
    /\ last.args[1] # last.args[2]
    /\ ~Edge(StoreGraph.Upstream, last.args[2], last.args[1])

\* C9: a command refused because DetectCycle returned true leaves the persisted
\* store as it was: no new fiber, no changed dependency list, no other edit.
C9_CycleRejectionWritesNothing ==
    [][last'.out = "cycle" => store' = store]_vars

\* edit -s closed -a <dep> was refused for a cycle on a fiber that is not closed
C9_Witness ==
    /\ last.op = "edit"
    /\ last.out = "cycle"
    /\ last.args[2] = "--status"
    /\ store[last.args[1]].status # StatusClosed

\* C10: rm <id> fails and leaves the store unchanged whenever a stored fiber
\* lists id among its dependencies; otherwise it deletes the fiber id.
C10_RmRefusedIffDependents ==
    [][last'.op = "rm" =>
         LET id == last'.args[1]
             listed == \E x \in DOMAIN store : \E i \in 1..Len(store[x].dependsOn) :
                          UnmarshalDep(store[x].dependsOn[i]).ID = id
         IN  /\ listed => (last'.out # "ok" /\ store' = store)
             /\ (~listed /\ id \in DOMAIN store) =>
                   /\ last'.out = "ok"
                   /\ DOMAIN store' = (DOMAIN store) \ {id}
                   /\ \A x \in DOMAIN store' : store'[x] = store[x]
             /\ last'.out = "ok" => ~listed]_vars

\* rm was refused for a fiber that is only the second dependency of its dependent
C10_Witness ==
    /\ last.op = "rm"
    /\ last.out = "dependents"
    /\ \A x \in DOMAIN store :
          Len(store[x].dependsOn) > 0 =>
             UnmarshalDep(store[x].dependsOn[1]).ID # last.args[1]

\* the store the quick-start leaves: X created with no flags and then given
\* status sx by edit -s, Y created with -a X and no other flag
QuickStartStore(X, Y, sx) ==
    Write(Write(EmptyMap, Felt(X, sx, <<>>, 1)), Felt(Y, "", <<Dependency(X, "")>>, 1))

ListedIds(out) == {out[i].ID : i \in 1..Len(out)}

\* C12: in the quick-start sequence - add X with no flags, add Y with -a X and no
\* other flag - ready lists X; after X is set active and then closed, ready
\* lists Y.
C12_QuickStart ==
    last.op = "ready" =>
        \A X \in Ids : \A Y \in Ids \ {X} :
            /\ store = QuickStartStore(X, Y, "") => X \in ListedIds(last.out)
            /\ store = QuickStartStore(X, Y, StatusClosed) => Y \in ListedIds(last.out)

\* id is in some / in every slice ready may print for the store st
SomeReady(st, id) ==
    \E ob \in Perms(DOMAIN st), orr \in Perms(DOMAIN st) :
        \E r \in ReadyCmd(st, ob, orr) : id \in ListedIds(r)
EveryReady(st, id) ==
    \A ob \in Perms(DOMAIN st), orr \in Perms(DOMAIN st) :
        \A r \in ReadyCmd(st, ob, orr) : id \in ListedIds(r)

\* A is open, its dependencies all exist, D is among them and open, and every
\* other dependency is closed
BlockedOnlyBy(st, A, D) ==
    /\ A \in DOMAIN st /\ D \in DOMAIN st
    /\ st[A].status = StatusOpen
    /\ st[D].status = StatusOpen
    /\ \E i \in 1..Len(st[A].dependsOn) : UnmarshalDep(st[A].dependsOn[i]).ID = D
    /\ \A i \in 1..Len(st[A].dependsOn) :
          LET x == UnmarshalDep(st[A].dependsOn[i]).ID
          IN  x \in DOMAIN st /\ (x # D => st[x].status = StatusClosed)

\* C13: an open fiber A whose dependencies all exist and are closed except one
\* open dependency D is not in ready; once a command has closed D and changed
\* nothing else in the store, A is in ready of the graph built from the store.
C13_ClosingUnblocks ==
    [][\A A \in Ids, D \in Ids :
          (/\ BlockedOnlyBy(store, A, D)
           /\ store' = [store EXCEPT ![D].status = StatusClosed])
          => (~SomeReady(store, A) /\ EveryReady(store', A))]_vars

\* off closed the second dependency of an open fiber whose first was closed
C13_Witness ==
    /\ last.op = "off"
    /\ last.out = "ok"
    /\ \E A \in DOMAIN store :
          /\ Len(store[A].dependsOn) = 2
          /\ UnmarshalDep(store[A].dependsOn[2]).ID = last.args[1]
          /\ UnmarshalDep(store[A].dependsOn[1]).ID # last.args[1]
          /\ EveryReady(store, A)

\* the graph link and edit check: built from the store, with the fiber from
\* replaced by itself plus the new references to tos, in order
WithProposed(st, from, tos) ==
    PatchedGraph(st, [Read(st, from) EXCEPT !.DependsOn =
                         @ \o [i \in 1..Len(tos) |-> Dependency(tos[i], "")]])

\* C20: DetectCycle(from, to) gives the same answer on the graph before the edge
\* is inserted and on the graph with "from depends on to" already appended to
\* upstream[from], as link and edit --depends-on build it; also when edit has
\* appended several new edges from the same fiber before checking each.
C20_PatchedCheckAgrees ==
    (last.op = "DetectCycle" /\ last.args[1] \in DOMAIN store) =>
        LET from == last.args[1]
            to == last.args[2]
        IN  /\ last.out = DetectCycle(WithProposed(store, from, <<to>>), from, to)
            /\ \A other \in Ids :
                  /\ last.out = DetectCycle(WithProposed(store, from, <<to, other>>), from, to)
                  /\ last.out = DetectCycle(WithProposed(store, from, <<other, to>>), from, to)

\* DetectCycle for a new edge from a fiber that has dependencies to a fiber that
\* has dependencies came out false
C20_Witness ==
    /\ last.op = "DetectCycle"
    /\ last.out = FALSE
    /\ {last.args[1], last.args[2]} \subseteq DOMAIN store
    /\ g.Upstream[last.args[1]] # <<>>
    /\ g.Upstream[last.args[2]] # <<>>
    /\ ~Edge(g.Upstream, last.args[1], last.args[2])

\* C26: after any sequence of add (with repeated -a flags), link,
\* edit --depends-on and unlink, no stored fiber's dependency list holds the
\* same dependency id twice.
C26_NoDuplicateDeps ==
    \A id \in DOMAIN store :
        LET deps == Read(store, id).DependsOn
        IN  \A i \in 1..Len(deps) : \A j \in 1..Len(deps) :
               deps[i].ID = deps[j].ID => i = j

\* the stored graph is acyclic, has no dangling reference, and every fiber is
\* open or closed
Workable ==
    /\ ~HasCycle(StoreGraph)
    /\ \A id \in DOMAIN store :
          /\ Read(store, id).Status \in {StatusOpen, StatusClosed}
          /\ \A i \in 1..Len(Read(store, id).DependsOn) :
                Read(store, id).DependsOn[i].ID \in DOMAIN store

SomeOpen == \E id \in DOMAIN store : IsOpen(Read(store, id))

\* C29: in every acyclic graph without dangling references in which every
\* fiber is open or closed and at least one is open, ready is non-empty; and
\* closing a ready fiber again and again leads to a state with no open fiber.
C29_NoDeadlock ==
    /\ []((Workable /\ SomeOpen /\ last.op = "ready") => last.out # <<>>)
    /\ (Workable ~> ~SomeOpen)

\* three fibers all closed, the one closed last having had to wait for another
C29_Witness ==
    /\ last.op = "off"
    /\ last.out = "ok"
    /\ Workable
    /\ ~SomeOpen
    /\ Cardinality(DOMAIN store) = 3
    /\ Read(store, last.args[1]).DependsOn # <<>>

\* C30: starting from an empty store, after any sequence of add -a, link,
\* edit --depends-on, unlink and rm, every stored dependency id names a stored
\* fiber: ValidateDependencies on a graph built from the store returns no error.
C30_NoDanglingStored ==
    /\ \A ord \in Perms(DOMAIN store) : ValidateDependencies(StoreGraph, ord) = <<>>
    /\ \A id \in DOMAIN store :
          \A i \in 1..Len(Read(store, id).DependsOn) :
             Read(store, id).DependsOn[i].ID \in DOMAIN store

\* a fiber was deleted from a store that holds dependency edges, and an rm of
\* one of their targets would have been refused
C30_Witness ==
    /\ last.op = "rm"
    /\ last.out = "ok"
    /\ \E id \in DOMAIN store :
          /\ Read(store, id).DependsOn # <<>>
          /\ RmCmd(store, Read(store, id).DependsOn[1].ID).out = "dependents"

=============================================================================
